---- MODULE Spec2Model ----
(***************************************************************************)
(* Balrog (src/balrog.py): a Flask chat relay.  A chat request is checked  *)
(* by a safety classifier, sent with the session's conversation to the     *)
(* completion model, the reply is checked again, and the conversation kept *)
(* in Flask's cookie-backed `session` is extended and cut to 20 messages.  *)
(*                                                                         *)
(* The session is Flask's SecureCookieSession: the stored conversation     *)
(* lives in the client's cookie (jar).  Every request carries the cookie   *)
(* the client held when it sent the request; the handler works on the      *)
(* deserialised copy (sess); the response sets a new cookie only when the  *)
(* session object was marked modified, which item assignment               *)
(* (session[k] = v) does and mutating a contained list in place does not.  *)
(* werkzeug's run_simple is called with its defaults (one thread, one      *)
(* process), so the server handles one request at a time (busy).           *)
(*                                                                         *)
(* Texts are sequences of one-character strings, so that str.strip,        *)
(* str.lower and the `keyword in text` test are computed, not assumed.     *)
(***************************************************************************)
EXTENDS Integers, Sequences, FiniteSets, TLC

VARIABLES jar, req, busy, sent, ideal, succeeded

vars == <<jar, req, busy, sent, ideal, succeeded>>

(*************************** bounds of the model ***************************)
\* Requests a run sends in all, and requests in flight at once.
MaxRequests == 2
MaxInFlight == 2

(***************************** program constants ***************************)
MaxHistory == 20

Sessions == {"A", "B"}
Slots == 1..MaxInFlight

(********************************* texts ***********************************)
Whitespace == {" ", "\n", "\t", "\r"}

RECURSIVE LStrip(_)
LStrip(s) == IF s # <<>> /\ Head(s) \in Whitespace THEN LStrip(Tail(s)) ELSE s

RECURSIVE RStrip(_)
RStrip(s) ==
    IF s # <<>> /\ s[Len(s)] \in Whitespace THEN RStrip(SubSeq(s, 1, Len(s) - 1)) ELSE s

Strip(s) == RStrip(LStrip(s))

UpperCase == <<"A","B","C","D","E","F","G","H","I","J","K","L","M",
               "N","O","P","Q","R","S","T","U","V","W","X","Y","Z">>
LowerCase == <<"a","b","c","d","e","f","g","h","i","j","k","l","m",
               "n","o","p","q","r","s","t","u","v","w","x","y","z">>

LowerChar(c) ==
    IF \E i \in 1..Len(UpperCase) : UpperCase[i] = c
    THEN LowerCase[CHOOSE i \in 1..Len(UpperCase) : UpperCase[i] = c]
    ELSE c

Lower(s) == [i \in 1..Len(s) |-> LowerChar(s[i])]

Contains(s, k) ==
    \E i \in 1..(Len(s) - Len(k) + 1) : SubSeq(s, i, i + Len(k) - 1) = k

Keywords == { <<"u","n","s","a","f","e">>,
              <<"v","i","o","l","a","t","i","o","n">>,
              <<"h","a","r","m","f","u","l">>,
              <<"i","n","a","p","p","r","o","p","r","i","a","t","e">> }

TextSafe == <<"S","a","f","e">>
TextSafetyCheckFailed ==
    <<"S","a","f","e","t","y"," ","c","h","e","c","k"," ","f","a","i","l","e","d">>

NoText == <<>>

(************************* replies of the backends *************************)
\* What the classifier backend can answer to one request: the call raises
\* (network or protocol error), the reply carries no text (content is None,
\* so .strip() raises inside the try), or it carries a text.
ClassifierTexts == { <<"s","a","f","e">>,
                     <<"\n","U","n","s","a","f","e","\n","S","1"," ">> }

ClassifierReplies ==
    { [kind |-> "raises", error |-> "Connection error.", text |-> NoText],
      [kind |-> "no_content", error |-> "", text |-> NoText] }
    \cup { [kind |-> "text", error |-> "", text |-> t] : t \in ClassifierTexts }

\* What the completion backend can answer: the call raises, the first choice
\* has no content (None), or it has a text, possibly the empty one.
CompletionTexts == { <<>>, <<"h","i"," ","t","h","e","r","e">> }

CompletionReplies ==
    { [kind |-> "raises", error |-> "Connection error.", text |-> NoText],
      [kind |-> "no_content", error |-> "", text |-> NoText] }
    \cup { [kind |-> "text", error |-> "", text |-> t] : t \in CompletionTexts }

(****************************** SafetyModel ********************************)
\* any(keyword in classification.lower() for keyword in [...])
Flagged(classification) == \E k \in Keywords : Contains(Lower(classification), k)

\* The except branch of check_content: "Default to safe if safety model fails".
FailOpen == [is_safe |-> TRUE, classification |-> TextSafetyCheckFailed]

\* A variant that blocks when the classifier fails.
FailClosed == [is_safe |-> FALSE, classification |-> TextSafetyCheckFailed]

OnClassifierError == FailOpen

\* A variant that keeps the reply's text as it came.
RawClassification(text) == text

\* The classification kept from the reply: response...content.strip().
Classification(text) == Strip(text)

CheckContent(reply) ==
    IF reply.kind # "text"
    THEN OnClassifierError
    ELSE LET classification == Classification(reply.text)
         IN  IF Flagged(classification)
             THEN [is_safe |-> FALSE, classification |-> classification]
             ELSE [is_safe |-> TRUE, classification |-> TextSafe]

(******************************* LLMClient *********************************)
\* The dict chat_completion returns: {"error": str(e)} or the first choice's
\* content (None when the reply has none).
ChatCompletion(reply) ==
    IF reply.kind = "raises"
    THEN [has_error |-> TRUE, error |-> reply.error, is_none |-> FALSE, content |-> NoText]
    ELSE [has_error |-> FALSE, error |-> "", is_none |-> reply.kind = "no_content",
          content |-> reply.text]

(************************* the cookie-backed session ***********************)
\* A cookie: has = the key 'conversation' is in the session, conv = its value.
NoCookie == [has |-> FALSE, conv |-> <<>>]

\* open_session: the handler's session object is a deserialised copy of the
\* cookie the request carried, not yet modified.
OpenSession(cookie) == [has |-> cookie.has, conv |-> cookie.conv, modified |-> FALSE]

\* session['conversation'] = value: item assignment marks the session modified.
SetConversation(sess, value) == [has |-> TRUE, conv |-> value, modified |-> TRUE]

\* if 'conversation' not in session: session['conversation'] = []
EnsureConversation(sess) == IF sess.has THEN sess ELSE SetConversation(sess, <<>>)

\* conversation.append(m) on the list the session holds: the list changes in
\* place and the session is not marked modified by it.
AppendInPlace(sess, m) == [sess EXCEPT !.conv = Append(@, m)]

\* conversation[-20:]
Last(n, s) == IF Len(s) <= n THEN s ELSE SubSeq(s, Len(s) - n + 1, Len(s))

\* save_session: a cookie is set only when the session was modified (the
\* session is not permanent); otherwise the client keeps the cookie it has.
SaveSession(current, sess) ==
    IF sess.modified THEN [has |-> sess.has, conv |-> sess.conv] ELSE current

(******************************** requests *********************************)
NoResult == [status |-> 0, error |-> "", type |-> "", classification |-> NoText,
             message |-> NoText]

Result(status, error, type, classification, message) ==
    [status |-> status, error |-> error, type |-> type,
     classification |-> classification, message |-> message]

NoVerdict == [is_safe |-> FALSE, classification |-> NoText]

\* json: request.get_json() gave a dict whose 'message', when present, is a str.
Bodies ==
    { [json |-> FALSE, has_message |-> FALSE, message |-> NoText],
      [json |-> TRUE, has_message |-> FALSE, message |-> NoText],
      [json |-> TRUE, has_message |-> TRUE, message |-> <<" ", "\n">>],
      [json |-> TRUE, has_message |-> TRUE, message |-> <<" ","h","i","\n">>] }

\* The message the handler reads from the body: data.get('message', '').
MessageOf(body) == IF body.has_message THEN body.message ELSE <<>>

Idle ==
    [pc |-> "idle", kind |-> "none", session |-> "A", turn |-> 0,
     body |-> [json |-> FALSE, has_message |-> FALSE, message |-> NoText],
     cookie |-> NoCookie, sess |-> OpenSession(NoCookie),
     user_message |-> NoText, assistant_message |-> NoText,
     verdict |-> NoVerdict, calls |-> <<>>, result |-> NoResult]

UserMessage(q) ==
    [role |-> "user", content |-> q.user_message, sid |-> q.session, turn |-> q.turn]

AssistantMessage(q) ==
    [role |-> "assistant", content |-> q.assistant_message, sid |-> q.session,
     turn |-> q.turn]

\* A conversation of k earlier successful turns of session s (turns 1-k .. 0).
History(s, k) ==
    [i \in 1..(2 * k) |->
        [role |-> IF i % 2 = 1 THEN "user" ELSE "assistant",
         content |-> IF i % 2 = 1 THEN <<"h","i">> ELSE <<"o","k">>,
         sid |-> s, turn |-> ((i + 1) \div 2) - k]]

Finish(q, result) == [q EXCEPT !.pc = "respond", !.result = result]

(************************ the chat handler, step by step *******************)
\* The request context: the session is opened from the cookie the request carries.
Opened(q) == [q EXCEPT !.sess = OpenSession(q.cookie)]

\* The log of a request's external calls: what was called, what the backend
\* answered, and what the client wrapper returned (ok: a safe verdict, or a
\* completion with a text; classification: the verdict's text).
Called(q, svc, reply, ok, classification) ==
    Append(q.calls, [svc |-> svc, kind |-> reply.kind, text |-> reply.text,
                     error |-> reply.error, ok |-> ok,
                     classification |-> classification])

\* A variant that does not strip the message before testing it.
ParsedUnstripped(q) ==
    IF ~q.body.json
    THEN Finish(q, Result(500, "Internal server error", "", NoText, NoText))
    ELSE LET user_message == MessageOf(q.body)
         IN  IF user_message = <<>>
             THEN Finish(q, Result(400, "Empty message", "", NoText, NoText))
             ELSE [q EXCEPT !.pc = "check_input", !.user_message = user_message]

\* data = request.get_json(); user_message = data.get('message', '').strip();
\* a body that is no such dict raises, and the handler's except answers 500.
Parsed(q) ==
    IF ~q.body.json
    THEN Finish(q, Result(500, "Internal server error", "", NoText, NoText))
    ELSE LET user_message == Strip(MessageOf(q.body))
         IN  IF user_message = <<>>
             THEN Finish(q, Result(400, "Empty message", "", NoText, NoText))
             ELSE [q EXCEPT !.pc = "check_input", !.user_message = user_message]

\* The input check, and on a safe verdict the load of the conversation and
\* the append of the user message to it.
InputChecked(q, reply) ==
    LET verdict == CheckContent(reply)
        p == [q EXCEPT !.verdict = verdict, !.calls = Called(q, "input", reply, verdict.is_safe,
                                          verdict.classification)]
    IN  IF ~verdict.is_safe
        THEN Finish(p, Result(400, "Content filtered by safety model", "input_filtered",
                              verdict.classification, NoText))
        ELSE [p EXCEPT !.pc = "call_llm",
                       !.sess = AppendInPlace(EnsureConversation(q.sess), UserMessage(q))]

\* A variant that calls the completion client once more after an error.
CompletedWithRetry(q, reply) ==
    LET response == ChatCompletion(reply)
        empty == response.is_none \/ response.content = <<>>
        p == [q EXCEPT !.calls = Called(q, "completion", reply,
                                          ~response.has_error /\ ~empty, NoText)]
    IN  IF response.has_error
        THEN IF Len(q.calls) < 2 THEN p
             ELSE Finish(p, Result(500, response.error, "", NoText, NoText))
        ELSE IF empty
        THEN Finish(p, Result(500, "Empty response from model", "", NoText, NoText))
        ELSE [p EXCEPT !.pc = "check_output", !.assistant_message = response.content]

\* The completion call on the conversation, and the two tests of its result.
Completed(q, reply) ==
    LET response == ChatCompletion(reply)
        empty == response.is_none \/ response.content = <<>>
        p == [q EXCEPT !.calls = Called(q, "completion", reply,
                                          ~response.has_error /\ ~empty, NoText)]
    IN  IF response.has_error
        THEN Finish(p, Result(500, response.error, "", NoText, NoText))
        ELSE IF empty
        THEN Finish(p, Result(500, "Empty response from model", "", NoText, NoText))
        ELSE [p EXCEPT !.pc = "check_output", !.assistant_message = response.content]

\* A variant that stores the assistant message before its check.
OutputCheckedAfterStore(q, reply) ==
    LET verdict == CheckContent(reply)
        p == [q EXCEPT !.verdict = verdict,
                       !.calls = Called(q, "output", reply, verdict.is_safe,
                                          verdict.classification),
                       !.sess = SetConversation(q.sess,
                            Last(MaxHistory, Append(q.sess.conv, AssistantMessage(q))))]
    IN  IF ~verdict.is_safe
        THEN Finish(p, Result(400, "Response filtered by safety model", "output_filtered",
                              verdict.classification, NoText))
        ELSE Finish(p, Result(200, "", "", NoText, q.assistant_message))

\* The output check, and on a safe verdict the append of the assistant
\* message and session['conversation'] = conversation[-20:].
OutputChecked(q, reply) ==
    LET verdict == CheckContent(reply)
        p == [q EXCEPT !.verdict = verdict, !.calls = Called(q, "output", reply, verdict.is_safe,
                                          verdict.classification)]
    IN  IF ~verdict.is_safe
        THEN Finish(p, Result(400, "Response filtered by safety model", "output_filtered",
                              verdict.classification, NoText))
        ELSE Finish([p EXCEPT !.sess =
                        SetConversation(q.sess,
                            Last(MaxHistory, Append(q.sess.conv, AssistantMessage(q))))],
                    Result(200, "", "", NoText, q.assistant_message))

\* A variant that empties the list in place: session['conversation'].clear()
ClearedInPlace(q) ==
    Finish([q EXCEPT !.sess = [q.sess EXCEPT !.conv = <<>>]],
           Result(200, "", "cleared", NoText, NoText))

\* clear_conversation: session['conversation'] = []
Cleared(q) ==
    Finish([q EXCEPT !.sess = SetConversation(q.sess, <<>>)],
           Result(200, "", "cleared", NoText, NoText))

(********************************* actions *********************************)
\* A variant in which every client holds the conversation of one session.
SharedCookie(s) == jar["A"]

\* The cookie a client of session s sends with a request.
CookieOf(s) == jar[s]

Free(r) == req[r].pc = "idle"

\* Slots are interchangeable: a new request takes the lowest free one.
FirstFree(r) == Free(r) /\ \A o \in Slots : Free(o) => r <= o

CanSend(r) == FirstFree(r) /\ sent < MaxRequests

SendChat(r, s, body) ==
    /\ CanSend(r)
    /\ req' = [req EXCEPT ![r] = [Idle EXCEPT !.pc = "sent", !.kind = "chat",
                                              !.session = s, !.turn = sent + 1,
                                              !.body = body, !.cookie = CookieOf(s)]]
    /\ sent' = sent + 1
    /\ UNCHANGED <<jar, busy, ideal, succeeded>>

SendClear(r, s) ==
    /\ CanSend(r)
    /\ req' = [req EXCEPT ![r] = [Idle EXCEPT !.pc = "sent", !.kind = "clear",
                                              !.session = s, !.turn = sent + 1,
                                              !.cookie = CookieOf(s)]]
    /\ sent' = sent + 1
    /\ UNCHANGED <<jar, busy, ideal, succeeded>>

\* The server takes up a request: one at a time.
ChatBegin(r) ==
    /\ busy = 0
    /\ req[r].pc = "sent" /\ req[r].kind = "chat"
    /\ busy' = r
    /\ req' = [req EXCEPT ![r] = Parsed(Opened(req[r]))]
    /\ UNCHANGED <<jar, sent, ideal, succeeded>>

ChatInputCheck(r) ==
    /\ busy = r /\ req[r].pc = "check_input"
    /\ \E reply \in ClassifierReplies : req' = [req EXCEPT ![r] = InputChecked(@, reply)]
    /\ UNCHANGED <<jar, busy, sent, ideal, succeeded>>

ChatCompletionCall(r) ==
    /\ busy = r /\ req[r].pc = "call_llm"
    /\ \E reply \in CompletionReplies : req' = [req EXCEPT ![r] = Completed(@, reply)]
    /\ UNCHANGED <<jar, busy, sent, ideal, succeeded>>

ChatOutputCheck(r) ==
    /\ busy = r /\ req[r].pc = "check_output"
    /\ \E reply \in ClassifierReplies : req' = [req EXCEPT ![r] = OutputChecked(@, reply)]
    /\ UNCHANGED <<jar, busy, sent, ideal, succeeded>>

ClearConversation(r) ==
    /\ busy = 0
    /\ req[r].pc = "sent" /\ req[r].kind = "clear"
    /\ busy' = r
    /\ req' = [req EXCEPT ![r] = Cleared(Opened(req[r]))]
    /\ UNCHANGED <<jar, sent, ideal, succeeded>>

\* The response: the session is saved into the client's cookie.  ideal and
\* succeeded record what the turns that returned success amount to.
Respond(r) ==
    LET q == req[r]
        won == q.kind = "chat" /\ q.result.status = 200
    IN  /\ busy = r /\ q.pc = "respond"
        /\ jar' = [jar EXCEPT ![q.session] = SaveSession(@, q.sess)]
        /\ ideal' = [ideal EXCEPT ![q.session] =
                        IF q.kind = "clear" THEN <<>>
                        ELSE IF won THEN @ \o <<UserMessage(q), AssistantMessage(q)>>
                        ELSE @]
        /\ succeeded' = IF won THEN succeeded \cup {q.turn} ELSE succeeded
        /\ req' = [req EXCEPT ![r] = Idle]
        /\ busy' = 0
        /\ UNCHANGED sent

(***************************** specification *******************************)
\* Session A starts with no cookie (-1) or with the conversation of k earlier
\* successful turns: none, one short of the cap, or at the cap.  Session B
\* starts with a conversation one turn short of the cap.
InitialTurns == {-1, 0, MaxHistory \div 2 - 1, MaxHistory \div 2}

InitialCookie(s, k) ==
    IF k < 0 THEN NoCookie ELSE [has |-> TRUE, conv |-> History(s, k)]

Init ==
    /\ \E k \in InitialTurns :
          jar = [s \in Sessions |->
                    IF s = "A" THEN InitialCookie(s, k)
                    ELSE InitialCookie(s, MaxHistory \div 2 - 1)]
    /\ ideal = [s \in Sessions |-> jar[s].conv]
    /\ req = [r \in Slots |-> Idle]
    /\ busy = 0
    /\ sent = 0
    /\ succeeded = {}

Next ==
    \/ \E r \in Slots, s \in Sessions, body \in Bodies : SendChat(r, s, body)
    \/ \E r \in Slots, s \in Sessions : SendClear(r, s)
    \/ \E r \in Slots : ChatBegin(r)
    \/ \E r \in Slots : ChatInputCheck(r)
    \/ \E r \in Slots : ChatCompletionCall(r)
    \/ \E r \in Slots : ChatOutputCheck(r)
    \/ \E r \in Slots : ClearConversation(r)
    \/ \E r \in Slots : Respond(r)

Spec == Init /\ [][Next]_vars

(************************** vocabulary of the claims ***********************)
\* The step in which request r's response reaches the client.
RespondStep(r) == busy = r /\ req[r].pc = "respond" /\ req'[r].pc = "idle"

Stored(s) == jar[s].conv

\* The conversation stored for session s after the step.
StoredNext(s) == jar'[s].conv

IsChat(q) == q.kind = "chat"

CalledServices(q) == [i \in 1..Len(q.calls) |-> q.calls[i].svc]

\* The turn was rejected after its input check had returned safe.
RejectedAfterInput(q) ==
    /\ IsChat(q) /\ q.pc = "respond" /\ q.result.status # 200
    /\ Len(q.calls) >= 1 /\ q.calls[1].svc = "input" /\ q.calls[1].ok

\* The turn was rejected for an empty message or an unsafe input verdict.
RejectedEarly(q) ==
    /\ IsChat(q) /\ q.pc = "respond" /\ q.body.json
    /\ \/ Strip(MessageOf(q.body)) = <<>>
       \/ Len(q.calls) >= 1 /\ q.calls[1].svc = "input" /\ ~q.calls[1].ok

(********************************** C1 *************************************)
\* C1: a chat turn rejected after the input check accepted the message (the
\* completion failed, the assistant text was empty, or the output verdict was
\* unsafe) leaves the session's stored conversation as it was.
C1_RejectedTurnLeavesStore ==
    [][\A r \in Slots :
          RespondStep(r) /\ RejectedAfterInput(req[r])
          => StoredNext(req[r].session) = Stored(req[r].session)]_vars

(********************************** C2 *************************************)
\* C2: a chat turn whose message is empty after trimming, or whose input
\* verdict is unsafe, returns its error without a completion call or an output
\* check (an empty message without any call), and the stored conversation of
\* the session, a missing one included, is unchanged.
C2_EarlyRejectNoCallNoChange ==
    [][\A r \in Slots :
          RespondStep(r) /\ RejectedEarly(req[r])
          => /\ req[r].result.status = 400
             /\ IF Strip(MessageOf(req[r].body)) = <<>>
                THEN req[r].calls = <<>> /\ req[r].result.error = "Empty message"
                ELSE CalledServices(req[r]) = <<"input">>
                     /\ req[r].result.type = "input_filtered"
             /\ jar' = jar]_vars

\* An input-filtered turn of a session that holds a conversation is about to
\* be answered.
C2_Witness ==
    \E r \in Slots :
        /\ RejectedEarly(req[r]) /\ req[r].result.type = "input_filtered"
        /\ req[r].cookie.conv # <<>>

(********************************** C3 *************************************)
\* C3: after N successful turns from an empty conversation the stored
\* conversation is the most recent min(2N, 20) messages of user_1,
\* assistant_1, ..., user_N, assistant_N (ideal: the messages of the turns
\* that returned success, in order), and never longer than 20.
C3_StoredIsRecentSuccessfulTurns ==
    \A s \in Sessions :
        /\ Stored(s) = Last(MaxHistory, ideal[s])
        /\ Len(Stored(s)) <= MaxHistory

(********************************** C4 *************************************)
Succeeded(q) == IsChat(q) /\ q.pc = "respond" /\ q.result.status = 200

TurnMessages(q) == <<UserMessage(q), AssistantMessage(q)>>

\* The last two stored messages of session s, when they are the user and the
\* assistant message of one turn that returned success.
LastStoredTurn(s) == SubSeq(Stored(s), Len(Stored(s)) - 1, Len(Stored(s)))

EndsWithSuccessfulTurn(s) ==
    /\ Len(Stored(s)) >= 2
    /\ LastStoredTurn(s)[1].role = "user" /\ LastStoredTurn(s)[2].role = "assistant"
    /\ LastStoredTurn(s)[1].turn = LastStoredTurn(s)[2].turn
    /\ LastStoredTurn(s)[1].turn \in succeeded

\* While turn q was in flight another turn of its session returned success:
\* the stored conversation is the one q was sent with followed by that turn.
OvertakenBySuccessfulTurn(q) ==
    /\ EndsWithSuccessfulTurn(q.session)
    /\ LastStoredTurn(q.session)[1].turn # q.turn
    /\ Stored(q.session) # q.cookie.conv
    /\ Stored(q.session) = Last(MaxHistory, q.cookie.conv \o LastStoredTurn(q.session))

\* C4: two concurrent successful turns of one session are both kept and do
\* not interleave: the stored conversation is the prior one followed by the
\* two messages of one turn and then the two of the other, cut to 20.
C4_ConcurrentTurnsBothKept ==
    [][\A r \in Slots :
          RespondStep(r) /\ Succeeded(req[r]) /\ OvertakenBySuccessfulTurn(req[r])
          => LET s == req[r].session
                 prior == req[r].cookie.conv
                 other == LastStoredTurn(s)
                 mine == TurnMessages(req[r])
             IN  \/ StoredNext(s) = Last(MaxHistory, prior \o other \o mine)
                 \/ StoredNext(s) = Last(MaxHistory, prior \o mine \o other)]_vars

(********************************** C5 *************************************)
ClassifierFailed(call) == call.svc \in {"input", "output"} /\ call.kind # "text"

BothChecksFailed(q) ==
    /\ Len(q.calls) = 3
    /\ ClassifierFailed(q.calls[1]) /\ ClassifierFailed(q.calls[3])

\* C5: a classifier call that fails returns the verdict safe with the
\* classification "Safety check failed", for the input and for the output
\* check; no turn is filtered by a check whose call failed; and a turn in
\* which both checks failed and the completion had a text returns 200 and is
\* stored.
C5_FailOpen ==
    [][\A r \in Slots :
          RespondStep(r) /\ IsChat(req[r])
          => LET q == req[r]
             IN  /\ \A i \in 1..Len(q.calls) :
                        ClassifierFailed(q.calls[i])
                        => /\ q.calls[i].ok
                           /\ q.calls[i].classification = TextSafetyCheckFailed
                 /\ q.result.type = "input_filtered" => ~ClassifierFailed(q.calls[1])
                 /\ q.result.type = "output_filtered" => ~ClassifierFailed(q.calls[3])
                 /\ BothChecksFailed(q)
                    => /\ q.result.status = 200
                       /\ q.result.message = q.calls[2].text
                       /\ StoredNext(q.session) =
                             Last(MaxHistory, q.cookie.conv \o TurnMessages(q))]_vars

\* A turn whose input and output check both failed is about to be answered.
C5_Witness ==
    \E r \in Slots :
        /\ req[r].pc = "respond" /\ IsChat(req[r]) /\ BothChecksFailed(req[r])
        /\ req[r].calls[1].kind = "raises" /\ req[r].calls[3].kind = "no_content"

(********************************** C6 *************************************)
\* The outcome the order of the steps gives, with classification(text) the
\* classification an unsafe verdict carries for the classifier's text.
Outcome(q, classification(_)) ==
    IF Strip(MessageOf(q.body)) = <<>>
    THEN Result(400, "Empty message", "", NoText, NoText)
    ELSE IF ~q.calls[1].ok
    THEN Result(400, "Content filtered by safety model", "input_filtered",
                classification(q.calls[1].text), NoText)
    ELSE IF q.calls[2].kind = "raises"
    THEN Result(500, q.calls[2].error, "", NoText, NoText)
    ELSE IF q.calls[2].kind = "no_content" \/ q.calls[2].text = <<>>
    THEN Result(500, "Empty response from model", "", NoText, NoText)
    ELSE IF ~q.calls[3].ok
    THEN Result(400, "Response filtered by safety model", "output_filtered",
                classification(q.calls[3].text), NoText)
    ELSE Result(200, "", "", NoText, q.calls[2].text)

AsReturned(text) == text

Trimmed(text) == Strip(text)

NoClassifierErrorSurfaced(q) ==
    \A i \in 1..Len(q.calls) :
        ClassifierFailed(q.calls[i])
        => /\ q.calls[i].ok
           /\ i = Len(q.calls) => q.result.status = 200

IsPrefix(a, b) == Len(a) <= Len(b) /\ a = SubSeq(b, 1, Len(a))

\* C7: no external call is made twice and the calls come in the order input
\* check, completion, output check; the completion follows a safe input
\* verdict, the output check a completion with a text, and a turn that
\* returns success made all three.
C7_CallsOnceInOrder ==
    \A r \in Slots :
        LET q == req[r]
        IN  /\ IsPrefix(CalledServices(q), <<"input", "completion", "output">>)
            /\ Len(q.calls) >= 2 => q.calls[1].ok
            /\ Len(q.calls) >= 3 => q.calls[2].ok /\ q.calls[2].text # <<>>
            /\ IsChat(q) /\ q.result.status = 200 => Len(q.calls) = 3
            /\ q.pc = "check_input" => Len(q.calls) = 0
            /\ q.pc = "call_llm" => Len(q.calls) = 1
            /\ q.pc = "check_output" => Len(q.calls) = 2

\* A successful turn, with its three calls made, is about to be answered.
C7_Witness ==
    \E r \in Slots : Succeeded(req[r]) /\ Len(req[r].calls) = 3

(********************************** C8 *************************************)
ClearedCookie == [has |-> TRUE, conv |-> <<>>]

\* C8: a clear request sets the stored conversation of its session to the
\* empty sequence whatever it was, and a successful turn sent with the cleared
\* conversation stores exactly its user and its assistant message.
C8_ClearEmptiesConversation ==
    [][\A r \in Slots :
          /\ RespondStep(r) /\ req[r].kind = "clear"
             => /\ jar'[req[r].session] = ClearedCookie
                /\ req[r].result.status = 200
          /\ RespondStep(r) /\ Succeeded(req[r]) /\ req[r].cookie = ClearedCookie
             => StoredNext(req[r].session) = TurnMessages(req[r])]_vars

\* A clear request of a session that holds a conversation is about to be
\* answered.
C8_Witness ==
    \E r \in Slots :
        /\ req[r].pc = "respond" /\ req[r].kind = "clear"
        /\ Stored(req[r].session) # <<>>

(********************************** C9 *************************************)
OwnMessages(conv, s) == \A i \in 1..Len(conv) : conv[i].sid = s

\* C9: the stored conversation of a session changes only in the response to
\* a request of that session, and the conversation sent to the completion
\* client (and the one saved) holds messages of the request's session only.
C9_SessionsIsolated ==
    [][/\ \A s \in Sessions :
             jar'[s] # jar[s] => \E r \in Slots : RespondStep(r) /\ req[r].session = s
       /\ \A r \in Slots :
             req'[r].pc \in {"call_llm", "check_output", "respond"}
             => OwnMessages(req'[r].sess.conv, req'[r].session)
       /\ \A s \in Sessions : OwnMessages(jar'[s].conv, s)]_vars

\* A turn of session A is at the completion call while a request of session
\* B, which holds a conversation, is in flight.
C9_Witness ==
    \E r, o \in Slots :
        /\ req[r].pc = "call_llm" /\ req[r].session = "A" /\ Len(req[r].sess.conv) > 1
        /\ req[o].pc = "sent" /\ req[o].session = "B" /\ Stored("B") # <<>>

(********************************** C10 ************************************)
\* C10: every stored assistant message is the non-empty text of a turn that
\* returned success (or of the history the session started with), so of a
\* turn whose output verdict was safe, and it follows the user message of
\* that turn unless truncation to 20 dropped it.
C10_StoredAssistantWasJudgedSafe ==
    /\ \A s \in Sessions : \A i \in 1..Len(Stored(s)) :
          Stored(s)[i].role = "assistant"
          => /\ Stored(s)[i].content # <<>>
             /\ Stored(s)[i].turn \in succeeded \/ Stored(s)[i].turn <= 0
             /\ IF i = 1 THEN Len(Stored(s)) = MaxHistory
                ELSE /\ Stored(s)[i - 1].role = "user"
                     /\ Stored(s)[i - 1].turn = Stored(s)[i].turn
    /\ \A r \in Slots :
          Succeeded(req[r])
          => /\ Len(req[r].calls) = 3 /\ req[r].calls[3].svc = "output"
             /\ req[r].calls[3].ok
             /\ req[r].assistant_message = req[r].calls[2].text
             /\ req[r].assistant_message # <<>>

\* The assistant message of a turn of this run is stored.
C10_Witness ==
    \E s \in Sessions : \E i \in 1..Len(Stored(s)) :
        Stored(s)[i].role = "assistant" /\ Stored(s)[i].turn >= 1
====
